---- MODULE Spec2Model ----
(***************************************************************************)
(* A model of the z2m Broker (src/broker.go) and of the parts of package   *)
(* api it relies on (second half of src/publisher.go).                     *)
(*                                                                         *)
(* Threads: application goroutines calling SetAttr, GetNodes, WatchValue   *)
(* and the cancel closures, and one inbound dispatch goroutine running the *)
(* three handlers returned by Subscriptions.  A step of the model is one   *)
(* critical section of b.mu, or one channel operation outside of it.       *)
(***************************************************************************)
EXTENDS Integers, Sequences, FiniteSets, TLC

\* ------------------------------------------------------------------ bounds

\* Longest result array of a getNodes response.
MaxEntries == 2
\* Capacity of the channels the application hands to WatchValue.
SinkCap == 1
\* Capacity of the completion channel SetAttr makes.
WaitCap == 1

\* ------------------------------------------------------------------ inputs

NodeIDs == {1, 2}
Callers == {"A", "B"}
Sinks == {"s1", "s2"}
Messages == {"X", "Y"}
GetNodesContexts == {"nil", "background", "deadline"}
\* What the application passes as SetAttr's value: something json.Marshal
\* encodes, or something it rejects (a channel, a func).
WriteValues == {"v", "unencodable"}

\* ------------------------------------------------------------------ errors

Nil == [kind |-> "nil", msg |-> ""]
Err(k, m) == [kind |-> k, msg |-> m]

\* ------------------------------------------------------------------ api.Value

\* An api.Value as far as the broker reads it.
Value(nodeId, cc, prop) ==
    [NodeID |-> nodeId, CommandClass |-> cc, Endpoint |-> 0, Property |-> prop]

\* The api.ValueID Value.WriteValue builds: the key of the pending-write table.
ValueIDOf(v) ==
    [NodeID |-> v.NodeID, CommandClass |-> v.CommandClass,
     Endpoint |-> v.Endpoint, Property |-> v.Property]

\* ------------------------------------------------------------------ Value.Value

\* A json.RawMessage: k is "absent" (no bytes) or the kind of JSON text; i, b
\* and s carry an integer, a boolean, and a string or an object's "unit".
Raw(k, i, b, s) == [k |-> k, i |-> i, b |-> b, s |-> s]

\* The Go values Value.Value returns.
GoInt(n) == [t |-> "int", k |-> "", i |-> n, b |-> FALSE, s |-> ""]
GoBool(x) == [t |-> "bool", k |-> "", i |-> 0, b |-> x, s |-> ""]
GoString(x) == [t |-> "string", k |-> "", i |-> 0, b |-> FALSE, s |-> x]
\* A time.Duration, in seconds.
GoDuration(n) == [t |-> "duration", k |-> "", i |-> n, b |-> FALSE, s |-> ""]
GoRaw(r) == [t |-> "raw", k |-> r.k, i |-> r.i, b |-> r.b, s |-> r.s]
NoValue == [t |-> "nil", k |-> "", i |-> 0, b |-> FALSE, s |-> ""]

Decoded(v) == [err |-> Nil, val |-> v]
Undecoded(type) == [err |-> Err("TypeMismatch", type), val |-> NoValue]

\* Value.Value(): the switch on v.Type.  json.Unmarshal of null into a
\* non-pointer leaves the zero value and returns no error; of no bytes it
\* returns an error.
ValueValue(type, raw) ==
    CASE type = "number" ->
            IF raw.k \in {"absent", "null"} THEN Decoded(GoInt(0))
            ELSE IF raw.k = "int" THEN Decoded(GoInt(raw.i))
            ELSE Undecoded(type)
      [] type = "boolean" ->
            IF raw.k \in {"absent", "null"} THEN Decoded(GoBool(FALSE))
            ELSE IF raw.k = "bool" THEN Decoded(GoBool(raw.b))
            ELSE Undecoded(type)
      [] type \in {"string", "color"} ->
            IF raw.k = "string" THEN Decoded(GoString(raw.s))
            ELSE IF raw.k = "null" THEN Decoded(GoString(""))
            ELSE Undecoded(type)
      [] type = "duration" ->
            IF raw.k \in {"object", "null"}
            THEN IF raw.k = "object" /\ raw.s = "seconds" THEN Decoded(GoDuration(1))
                 ELSE IF raw.k = "object" /\ raw.s = "minutes" THEN Decoded(GoDuration(60))
                 ELSE Decoded(GoDuration(0))
            ELSE Undecoded(type)
      [] type = "any" -> Decoded(GoRaw(raw))
      [] OTHER -> Undecoded(type)

\* ------------------------------------------------------------------ state

VARIABLES
    mu,             \* b.mu: "free", "handlerW" (Lock held by the inbound
                    \* goroutine), "handlerR" (RLock held by it), "leaked"
                    \* (Lock held by a SetAttr call that returned without Unlock)
    nodesByName,    \* b.nodesByName: name -> index of a Node in objs
    nodesByID,      \* b.nodesByID: id -> index of a Node in objs
    objs,           \* the Node objects the last bootstrap allocated
    valueWatchers,  \* per Node of objs: property -> set of sinks
    installed,      \* the maps hold what a successful bootstrap installed
    setAttr,        \* b.setAttr: ValueID -> the caller whose wait channel it holds
    pc, key, ret, ctxDone, wait,   \* the SetAttr calls, per caller
    sent,           \* per caller: the key of the write request it published
                    \* last, while that request is unanswered
    hpc,            \* the inbound goroutine: "idle", "load" (in the loop of
                    \* handleGetNodesResp, followed entry by entry), "send" (blocked in
                    \* handleWriteValueResp's send), "notify" (in
                    \* handleNodeValueUpdated's loop), "returned" (a handler
                    \* returned hret to the dispatch layer)
    hslot, herr,    \* the channel and value of the blocked send
    htodo, hval,    \* the sinks the loop has still to visit, and the value
    hwatch,         \* the Node and property whose watchers the loop visits
    hret,           \* what the last handler returned to the dispatch layer
    hload,          \* handleGetNodesResp inside its locked function: the result
                    \* array, the valuesByProperty maps and the loop's position
    gpc, gctx, gctxDone, gret,     \* the GetNodes call
    greq,           \* a getNodes request is published and not yet answered
    ganswered,      \* the response to the call's request has been handled
    gout,           \* ... and this is what handling it returned
    sink,           \* per sink: the values queued in the channel
    handles,        \* per sink: the cancel closures the application keeps
    active,         \* per sink: the registrations made and not cancelled since
    called          \* per sink: the cancel closures it keeps that already ran

dirVars == <<nodesByName, nodesByID, objs, valueWatchers, installed>>
writeVars == <<setAttr, pc, key, ret, ctxDone, wait, sent>>
handlerVars == <<hpc, hslot, herr, htodo, hval, hwatch, hret, hload>>
bootVars == <<gpc, gctx, gctxDone, gret, greq, ganswered, gout>>
watchVars == <<sink, handles, active, called>>
vars == <<mu, dirVars, writeVars, handlerVars, bootVars, watchVars>>

EmptyMap == [x \in {} |-> 0]
\* The cancel closure of a registration whose Node is no longer in the maps.
Stale == [obj |-> 0, prop |-> ""]
NoKey == Value(0, 0, "")
NoLoad == [result |-> <<>>, ch |-> <<>>, i |-> 0, answers |-> FALSE]

\* NewBroker.
Init ==
    /\ mu = "free"
    /\ nodesByName = EmptyMap
    /\ nodesByID = EmptyMap
    /\ objs = <<>>
    /\ valueWatchers = <<>>
    /\ installed = FALSE
    /\ setAttr = EmptyMap
    /\ pc = [c \in Callers |-> "idle"]
    /\ key = [c \in Callers |-> NoKey]
    /\ ret = [c \in Callers |-> Nil]
    /\ ctxDone = [c \in Callers |-> FALSE]
    /\ wait = [c \in Callers |-> <<>>]
    /\ sent = [c \in Callers |-> NoKey]
    /\ hpc = "idle"
    /\ hslot = "none"
    /\ herr = Nil
    /\ htodo = {}
    /\ hval = NoValue
    /\ hwatch = Stale
    /\ hret = Nil
    /\ hload = NoLoad
    /\ gpc = "idle"
    /\ gctx = "nil"
    /\ gctxDone = FALSE
    /\ gret = Nil
    /\ greq = FALSE
    /\ ganswered = FALSE
    /\ gout = Nil
    /\ sink = [s \in Sinks |-> <<>>]
    /\ handles = [s \in Sinks |-> {}]
    /\ active = [s \in Sinks |-> {}]
    /\ called = [s \in Sinks |-> {}]

\* ------------------------------------------------------------------ maps

MapPut(m, k, v) == [x \in DOMAIN m \cup {k} |-> IF x = k THEN v ELSE m[x]]
MapDelete(m, k) == [x \in DOMAIN m \ {k} |-> m[x]]

\* ------------------------------------------------------------------ bootstrap

\* One element of GetNodesResp.Result, as far as the broker reads it.
Entry(id, name, failed, values) ==
    [ID |-> id, Name |-> name, Failed |-> failed, Values |-> values]

\* A getNodes payload: whether json.Unmarshal accepts it, and what it decodes to.
Response(success, result) == [Parse |-> TRUE, Success |-> success, Result |-> result]
BadResponse == [Parse |-> FALSE, Success |-> FALSE, Result |-> <<>>]

\* The valuesByProperty maps the loop over n.Values can leave: when two values
\* share a property string the one ranged over last stays, and Go ranges over
\* a map in no fixed order.
ValuesByPropertyChoices(e) ==
    LET ps == {v.Property : v \in e.Values}
    IN  {f \in [ps -> e.Values] : \A p \in ps : f[p].Property = p}

\* The Node the loop builds for entry e.
NodeOf(e, vbp) ==
    [ID |-> e.ID, Name |-> e.Name, Values |-> e.Values, valuesByProperty |-> vbp]

\* The loop over resp.Result, from entry i on.  st holds the two maps, the
\* Nodes allocated so far and the error; ch[i] is the valuesByProperty map of
\* entry i.
RECURSIVE LoadNodes(_, _, _, _)
LoadNodes(result, ch, i, st) ==
    IF i > Len(result) THEN st
    ELSE LET e == result[i] IN
         IF e.Failed THEN LoadNodes(result, ch, i + 1, st)
         ELSE IF e.Name \in DOMAIN st.byName
              THEN [st EXCEPT !.err = Err("Duplicate", e.Name)]
         ELSE LET all == Append(st.objs, NodeOf(e, ch[i]))
                  idx == Len(all)
              IN  LoadNodes(result, ch, i + 1,
                      [err |-> Nil,
                       byName |-> IF e.Name # "" THEN MapPut(st.byName, e.Name, idx)
                                                 ELSE st.byName,
                       byID |-> MapPut(st.byID, e.ID, idx),
                       objs |-> all])

\* What the locked part of handleGetNodesResp computes: both maps are emptied
\* first, then the loop runs.
Loaded(result, ch) ==
    LoadNodes(result, ch, 1,
              [err |-> Nil, byName |-> EmptyMap, byID |-> EmptyMap, objs |-> <<>>])

\* The valuesByProperty choices for a whole result array.
LoadChoices(result) ==
    {ch \in [1..Len(result) -> UNION {ValuesByPropertyChoices(result[i]) : i \in 1..Len(result)}] :
        \A i \in 1..Len(result) : ch[i] \in ValuesByPropertyChoices(result[i])}

\* What the inner function of handleGetNodesResp returns.
GetNodesErr(resp, ch) ==
    IF ~resp.Parse THEN Err("Malformed", "unable to parse GetNodes response")
    ELSE IF ~resp.Success THEN Err("Unsuccessful", "unsuccessful GetNodes response")
    ELSE Loaded(resp.Result, ch).err

\* The non-blocking send on b.gotNodes: it succeeds only when GetNodes is
\* parked in its select.  answers: this payload is the reply to the request
\* the pending GetNodes call published.
NotifyGotNodes(err, answers) ==
    /\ IF gpc = "recv"
       THEN /\ gpc' = "done"
            /\ gret' = err
       ELSE UNCHANGED <<gpc, gret>>
    /\ greq' = (greq /\ ~answers)
    /\ IF answers /\ gpc \in {"published", "recv"}
       THEN /\ ganswered' = TRUE
            /\ gout' = err
       ELSE UNCHANGED <<ganswered, gout>>
    /\ UNCHANGED <<gctx, gctxDone>>

\* The valueWatchers maps of the Nodes the loop allocates: each one is made
\* empty.
NewWatchers_Kept(st) ==
    [i \in 1..Len(st.objs) |->
        IF i \in DOMAIN valueWatchers THEN valueWatchers[i] ELSE EmptyMap]

NewWatchers(st) == [i \in 1..Len(st.objs) |-> EmptyMap]

\* handleGetNodesResp(payload).
HandleGetNodesResp(resp, ch, answers) ==
    /\ hpc = "idle"
    /\ answers => greq
    /\ IF resp.Parse /\ resp.Success
       THEN /\ mu = "free"
            /\ LET st == Loaded(resp.Result, ch) IN
               /\ nodesByName' = st.byName
               /\ nodesByID' = st.byID
               /\ objs' = st.objs
               /\ valueWatchers' = NewWatchers(st)
               /\ installed' = (st.err = Nil)
            /\ handles' = [s \in Sinks |-> IF handles[s] = {} THEN {} ELSE {Stale}]
            /\ active' = [s \in Sinks |-> {}]
            /\ called' = [s \in Sinks |-> IF called[s] = {} THEN {} ELSE {Stale}]
       ELSE UNCHANGED <<dirVars, handles, active, called>>
    /\ hpc' = "returned"
    /\ hret' = GetNodesErr(resp, ch)
    /\ NotifyGotNodes(GetNodesErr(resp, ch), answers)
    /\ UNCHANGED <<mu, writeVars, hslot, herr, htodo, hval, hwatch, hload, sink>>

\* handleGetNodesResp followed statement by statement, for what the other
\* goroutines can see of it.  What b.mu is after the handler's Lock:
InstallLock_None == "free"

InstallLock == "handlerW"

\* From b.mu.Lock() to the start of the loop: both maps are emptied.
HandleGetNodesResp_Lock(resp, ch, answers) ==
    /\ hpc = "idle"
    /\ answers => greq
    /\ resp.Parse /\ resp.Success
    /\ mu = "free"
    /\ mu' = InstallLock
    /\ nodesByName' = EmptyMap
    /\ nodesByID' = EmptyMap
    /\ objs' = <<>>
    /\ valueWatchers' = <<>>
    /\ installed' = FALSE
    /\ handles' = [s \in Sinks |-> IF handles[s] = {} THEN {} ELSE {Stale}]
    /\ active' = [s \in Sinks |-> {}]
    /\ called' = [s \in Sinks |-> IF called[s] = {} THEN {} ELSE {Stale}]
    /\ hpc' = "load"
    /\ hload' = [result |-> resp.Result, ch |-> ch, i |-> 1, answers |-> answers]
    /\ UNCHANGED <<writeVars, hslot, herr, htodo, hval, hwatch, hret, bootVars, sink>>

\* One turn of the loop over resp.Result; a duplicate name leaves the loop.
HandleGetNodesResp_Load ==
    /\ hpc = "load"
    /\ hload.i <= Len(hload.result)
    /\ LET st == LoadNodes(<<hload.result[hload.i]>>, <<hload.ch[hload.i]>>, 1,
                           [err |-> Nil, byName |-> nodesByName,
                            byID |-> nodesByID, objs |-> objs])
       IN  /\ nodesByName' = st.byName
           /\ nodesByID' = st.byID
           /\ objs' = st.objs
           /\ valueWatchers' = [i \in 1..Len(st.objs) |-> EmptyMap]
           /\ hret' = st.err
           /\ hload' = [hload EXCEPT !.i = IF st.err = Nil THEN @ + 1
                                                          ELSE Len(hload.result) + 1]
    /\ UNCHANGED <<mu, installed, writeVars, hpc, hslot, herr, htodo, hval, hwatch,
                   bootVars, watchVars>>

\* The locked function returns (Unlock), then the send on b.gotNodes.
HandleGetNodesResp_Unlock ==
    /\ hpc = "load"
    /\ hload.i > Len(hload.result)
    /\ mu' = "free"
    /\ installed' = (hret = Nil)
    /\ hpc' = "returned"
    /\ hload' = NoLoad
    /\ NotifyGotNodes(hret, hload.answers)
    /\ UNCHANGED <<nodesByName, nodesByID, objs, valueWatchers, writeVars, hslot,
                   herr, htodo, hval, hwatch, hret, watchVars>>

\* The dispatch layer has taken the handler's return value and is ready for
\* the next message.
Dispatch_Return ==
    /\ hpc = "returned"
    /\ hpc' = "idle"
    /\ hret' = Nil
    /\ UNCHANGED <<mu, dirVars, writeVars, hslot, herr, htodo, hval, hwatch, hload,
                   bootVars, watchVars>>

\* ------------------------------------------------------------------ GetNodes

\* GetNodes up to its select: Publish, then the nil check.  ok: what the
\* Publisher returned.
GetNodes_Publish(ctx, ok) ==
    /\ gpc = "idle"
    /\ gctx' = ctx
    /\ gctxDone' = FALSE
    /\ ganswered' = FALSE
    /\ gout' = Nil
    /\ IF ~ok
       THEN /\ gret' = Err("Publish", "")
            /\ gpc' = "done"
            /\ UNCHANGED greq
       ELSE /\ greq' = TRUE
            /\ IF ctx = "nil"
               THEN /\ gret' = Nil
                    /\ gpc' = "done"
               ELSE /\ gpc' = "published"
                    /\ UNCHANGED gret
    /\ UNCHANGED <<mu, dirVars, writeVars, handlerVars, watchVars>>

\* The deadline or the cancellation of the context GetNodes was given.
GetNodes_Deadline ==
    /\ gpc \in {"published", "recv"}
    /\ gctx = "deadline"
    /\ ~gctxDone
    /\ gctxDone' = TRUE
    /\ UNCHANGED <<mu, dirVars, writeVars, handlerVars, watchVars,
                   gpc, gctx, gret, greq, ganswered, gout>>

\* GetNodes reaches its select: nobody is sending on b.gotNodes (the handler
\* never waits there), so it returns ctx.Err() or parks.
GetNodes_Select ==
    /\ gpc = "published"
    /\ IF gctxDone
       THEN /\ gpc' = "done"
            /\ gret' = Err("Timeout", "")
       ELSE /\ gpc' = "recv"
            /\ UNCHANGED gret
    /\ UNCHANGED <<mu, dirVars, writeVars, handlerVars, watchVars,
                   gctx, gctxDone, greq, ganswered, gout>>

\* The parked GetNodes is woken by ctx.Done().
GetNodes_CtxDone ==
    /\ gpc = "recv"
    /\ gctxDone
    /\ gpc' = "done"
    /\ gret' = Err("Timeout", "")
    /\ UNCHANGED <<mu, dirVars, writeVars, handlerVars, watchVars,
                   gctx, gctxDone, greq, ganswered, gout>>

\* The application has taken the result of GetNodes.
GetNodes_Return ==
    /\ gpc = "done"
    /\ gpc' = "idle"
    /\ gret' = Nil
    /\ UNCHANGED <<mu, dirVars, writeVars, handlerVars, watchVars,
                   gctx, gctxDone, greq, ganswered, gout>>

\* ------------------------------------------------------------------ SetAttr

\* The two "not found" returns of SetAttr: unlock, return the error.
NotFound_Swallowed(c, what) ==
    /\ ret' = [ret EXCEPT ![c] = Nil]
    /\ pc' = [pc EXCEPT ![c] = "done"]
    /\ UNCHANGED <<mu, setAttr, key, wait>>

NotFound(c, what) ==
    /\ ret' = [ret EXCEPT ![c] = Err("NotFound", what)]
    /\ pc' = [pc EXCEPT ![c] = "done"]
    /\ UNCHANGED <<mu, setAttr, key, wait>>

\* SetAttr from b.mu.Lock() to the Unlock after the registration, or to the
\* early return.
SetAttr_Register(c, nodeName, property, value) ==
    /\ pc[c] = "idle"
    /\ mu = "free"
    /\ IF nodeName \notin DOMAIN nodesByName
       THEN NotFound(c, nodeName)
       ELSE LET n == objs[nodesByName[nodeName]] IN
            IF property \notin DOMAIN n.valuesByProperty
            THEN NotFound(c, property)
            ELSE IF value = "unencodable"
            THEN \* json.Marshal fails: return err, with b.mu still locked
                 /\ ret' = [ret EXCEPT ![c] = Err("Marshal", "")]
                 /\ pc' = [pc EXCEPT ![c] = "done"]
                 /\ mu' = "leaked"
                 /\ UNCHANGED <<setAttr, key, wait>>
            ELSE LET vid == ValueIDOf(n.valuesByProperty[property]) IN
                 /\ setAttr' = MapPut(setAttr, vid, c)
                 /\ wait' = [wait EXCEPT ![c] = <<>>]
                 /\ key' = [key EXCEPT ![c] = vid]
                 /\ pc' = [pc EXCEPT ![c] = "publish"]
                 /\ UNCHANGED <<mu, ret>>
    /\ UNCHANGED <<dirVars, ctxDone, sent, handlerVars, bootVars, watchVars>>

\* b.p.Publish of the write request.  ok: what the Publisher returned.
SetAttr_Publish(c, ok) ==
    /\ pc[c] = "publish"
    /\ IF ok
       THEN /\ sent' = [sent EXCEPT ![c] = key[c]]
            /\ pc' = [pc EXCEPT ![c] = "wait"]
            /\ UNCHANGED <<ret, ctxDone>>
       ELSE /\ ret' = [ret EXCEPT ![c] = Err("Publish", "")]
            /\ pc' = [pc EXCEPT ![c] = "cleanup"]
            /\ ctxDone' = [ctxDone EXCEPT ![c] = FALSE]
            /\ UNCHANGED sent
    /\ UNCHANGED <<mu, dirVars, setAttr, key, wait, handlerVars,
                   bootVars, watchVars>>

\* The deadline or the cancellation of the context the call was given.
SetAttr_Deadline(c) ==
    /\ pc[c] \in {"publish", "wait"}
    /\ ~ctxDone[c]
    /\ ctxDone' = [ctxDone EXCEPT ![c] = TRUE]
    /\ UNCHANGED <<mu, dirVars, setAttr, pc, key, ret, wait, sent, handlerVars,
                   bootVars, watchVars>>

\* The select takes <-ctx.Done().  The context is not read again.
SetAttr_CtxDone(c) ==
    /\ pc[c] = "wait"
    /\ ctxDone[c]
    /\ ret' = [ret EXCEPT ![c] = Err("Timeout", "")]
    /\ pc' = [pc EXCEPT ![c] = "cleanup"]
    /\ ctxDone' = [ctxDone EXCEPT ![c] = FALSE]
    /\ UNCHANGED <<mu, dirVars, setAttr, key, wait, sent, handlerVars,
                   bootVars, watchVars>>

\* The select takes <-wait.
SetAttr_Recv(c) ==
    /\ pc[c] = "wait"
    /\ wait[c] # <<>>
    /\ ret' = [ret EXCEPT ![c] = Head(wait[c])]
    /\ wait' = [wait EXCEPT ![c] = Tail(wait[c])]
    /\ pc' = [pc EXCEPT ![c] = "cleanup"]
    /\ ctxDone' = [ctxDone EXCEPT ![c] = FALSE]
    /\ UNCHANGED <<mu, dirVars, setAttr, key, sent, handlerVars,
                   bootVars, watchVars>>

\* What the deferred function leaves of b.setAttr.
AfterCleanup(m, c, vid) == MapDelete(m, vid)

\* The deferred function, then the return.  The call's channel is garbage
\* from here on.
SetAttr_Cleanup(c) ==
    /\ pc[c] = "cleanup"
    /\ mu = "free"
    /\ setAttr' = AfterCleanup(setAttr, c, key[c])
    /\ pc' = [pc EXCEPT ![c] = "done"]
    /\ wait' = [wait EXCEPT ![c] = <<>>]
    /\ UNCHANGED <<mu, dirVars, key, ret, ctxDone, sent, handlerVars, bootVars,
                   watchVars>>

\* The application has taken the result of SetAttr.
SetAttr_Return(c) ==
    /\ pc[c] = "done"
    /\ pc' = [pc EXCEPT ![c] = "idle"]
    /\ ret' = [ret EXCEPT ![c] = Nil]
    /\ key' = [key EXCEPT ![c] = NoKey]
    /\ UNCHANGED <<mu, dirVars, setAttr, ctxDone, wait, sent, handlerVars,
                   bootVars, watchVars>>

\* ------------------------------------------------------------------ handleWriteValueResp

\* A writeValue payload: whether WriteValueResp.UnmarshalJSON accepts it, and
\* what it decodes to.
Ack(vid, success, message) ==
    [Parse |-> TRUE, ValueID |-> vid, Success |-> success, Message |-> message]
BadAck == [Parse |-> FALSE, ValueID |-> NoKey, Success |-> FALSE, Message |-> ""]

\* What handleWriteValueResp sends on the channel it found.
AckErr_NoMessage(ack) ==
    IF ack.Success THEN Nil ELSE Err("RemoteFailure", "")

AckErr(ack) ==
    IF ack.Success THEN Nil ELSE Err("RemoteFailure", ack.Message)

\* What handleWriteValueResp returns when b.setAttr has no entry under the
\* payload's ValueID.
Unmatched_Reported(ack) == Err("NotFound", "")

Unmatched(ack) == Nil

\* The channel handleWriteValueResp sends on: b.setAttr[resp.ValueID].
AckSlot(ack) == setAttr[ack.ValueID]

\* handleWriteValueResp(payload), up to its return or to a send that has to
\* wait.  from: the caller whose last request this payload answers, or
\* "other" (the answer to an earlier request or to another client's write,
\* a payload delivered twice).
HandleWriteValueResp(ack, from) ==
    /\ hpc = "idle"
    /\ from # "other" =>
          /\ ack.Parse
          /\ sent[from] = ack.ValueID
    /\ sent' = IF from # "other" THEN [sent EXCEPT ![from] = NoKey] ELSE sent
    /\ IF ~ack.Parse
       THEN /\ hret' = Err("Malformed", "")
            /\ hpc' = "returned"
            /\ UNCHANGED <<mu, wait, hslot, herr>>
       ELSE /\ mu = "free"
            /\ IF ack.ValueID \notin DOMAIN setAttr
               THEN /\ hret' = Unmatched(ack)
                    /\ hpc' = "returned"
                    /\ UNCHANGED <<mu, wait, hslot, herr>>
               ELSE IF Len(wait[AckSlot(ack)]) < WaitCap
               THEN /\ wait' = [wait EXCEPT ![AckSlot(ack)] = Append(@, AckErr(ack))]
                    /\ hret' = AckErr(ack)
                    /\ hpc' = "returned"
                    /\ UNCHANGED <<mu, hslot, herr>>
               ELSE /\ hpc' = "send"
                    /\ hslot' = AckSlot(ack)
                    /\ herr' = AckErr(ack)
                    /\ mu' = "handlerW"
                    /\ UNCHANGED <<wait, hret>>
    /\ UNCHANGED <<dirVars, setAttr, pc, key, ret, ctxDone, htodo, hval,
                   hwatch, hload, bootVars, watchVars>>

\* The send that had to wait goes through, and the handler returns.
HandleWriteValueResp_Send ==
    /\ hpc = "send"
    /\ Len(wait[hslot]) < WaitCap
    /\ wait' = [wait EXCEPT ![hslot] = Append(@, herr)]
    /\ hret' = herr
    /\ hpc' = "returned"
    /\ hslot' = "none"
    /\ herr' = Nil
    /\ mu' = "free"
    /\ UNCHANGED <<dirVars, setAttr, pc, key, ret, ctxDone, sent, htodo, hval,
                   hwatch, hload, bootVars, watchVars>>

\* ------------------------------------------------------------------ WatchValue

\* A cancel closure: the watcher map w of Node obj and property prop (and the
\* channel, which is the sink that holds it).
Handle(o, property) == [obj |-> o, prop |-> property]

\* The watcher set of a Node for a property, empty when none was made yet.
WatchersOf(o, property) ==
    IF property \in DOMAIN valueWatchers[o] THEN valueWatchers[o][property] ELSE {}

\* WatchValue(nodeName, property, v).  The application keeps the cancel
\* closure it is returned.
WatchValue(v, nodeName, property) ==
    /\ mu = "free"
    /\ IF nodeName \notin DOMAIN nodesByName
       THEN UNCHANGED <<valueWatchers, handles, active>>
       ELSE LET o == nodesByName[nodeName] IN
            IF property \notin DOMAIN objs[o].valuesByProperty
            THEN UNCHANGED <<valueWatchers, handles, active>>
            ELSE /\ valueWatchers' = [valueWatchers EXCEPT ![o] =
                        MapPut(@, property, WatchersOf(o, property) \cup {v})]
                 /\ handles' = [handles EXCEPT ![v] = @ \cup {Handle(o, property)}]
                 /\ active' = [active EXCEPT ![v] = @ \cup {Handle(o, property)}]
    /\ UNCHANGED <<mu, nodesByName, nodesByID, objs, installed, writeVars,
                   handlerVars, bootVars, sink, called>>

\* What delete(w, v) leaves of the watcher set the closure holds.
AfterCancel_Keeps(w, v) == w

AfterCancel(w, v) == w \ {v}

\* The cancel closure h of sink v.  A closure over a Node that left the maps
\* deletes from a map nothing reads.  again: the closure called is one that
\* already ran; otherwise it is the closure of a registration still in place
\* (or a closure over such a Node).
Cancel(v, h, again) ==
    /\ h \in handles[v]
    /\ IF again THEN h \in called[v] ELSE h = Stale \/ h \in active[v]
    /\ called' = [called EXCEPT ![v] = @ \cup {h}]
    /\ mu = "free"
    /\ IF h = Stale
       THEN UNCHANGED <<valueWatchers, active>>
       ELSE /\ valueWatchers' = [valueWatchers EXCEPT ![h.obj] =
                   MapPut(@, h.prop, AfterCancel(WatchersOf(h.obj, h.prop), v))]
            /\ active' = [active EXCEPT ![v] = @ \ {h}]
    /\ UNCHANGED <<mu, nodesByName, nodesByID, objs, installed, writeVars,
                   handlerVars, bootVars, sink, handles>>

\* ------------------------------------------------------------------ handleNodeValueUpdated

\* A node_value_updated payload: whether NodeValueUpdate.UnmarshalJSON accepts
\* it (two data elements, the delta's value found in the snapshot), and the
\* fields of the api.Value it yields.
Update(nodeId, cc, property, type, raw) ==
    [Parse |-> TRUE, NodeID |-> nodeId, CommandClass |-> cc, Endpoint |-> 0,
     Property |-> property, Type |-> type, RawValue |-> raw]
BadUpdate ==
    [Parse |-> FALSE, NodeID |-> 0, CommandClass |-> 0, Endpoint |-> 0,
     Property |-> "", Type |-> "", RawValue |-> Raw("absent", 0, FALSE, "")]

\* The sinks the loop of handleNodeValueUpdated ranges over.
Callbacks(upd) ==
    IF upd.NodeID \notin DOMAIN nodesByID THEN {}
    ELSE WatchersOf(nodesByID[upd.NodeID], upd.Property)

\* handleNodeValueUpdated(payload), up to its loop.
HandleNodeValueUpdated(upd) ==
    /\ hpc = "idle"
    /\ IF ~upd.Parse
       THEN /\ hret' = Err("Malformed", "")
            /\ hpc' = "returned"
            /\ UNCHANGED <<mu, htodo, hval, hwatch>>
       ELSE IF ValueValue(upd.Type, upd.RawValue).err # Nil
       THEN /\ hret' = ValueValue(upd.Type, upd.RawValue).err
            /\ hpc' = "returned"
            /\ UNCHANGED <<mu, htodo, hval, hwatch>>
       ELSE /\ mu = "free"
            /\ IF Callbacks(upd) = {}
               THEN /\ hret' = Nil
                    /\ hpc' = "returned"
                    /\ UNCHANGED <<mu, htodo, hval, hwatch>>
               ELSE /\ mu' = "handlerR"
                    /\ hpc' = "notify"
                    /\ htodo' = Callbacks(upd)
                    /\ hval' = ValueValue(upd.Type, upd.RawValue).val
                    /\ hwatch' = Handle(nodesByID[upd.NodeID], upd.Property)
                    /\ UNCHANGED hret
    /\ UNCHANGED <<dirVars, writeVars, hslot, herr, hload, bootVars, watchVars>>

\* What the select of the loop leaves in channel c: the value is queued when
\* there is room, and dropped otherwise.
Offer(c, val) == IF Len(sink[c]) < SinkCap THEN Append(sink[c], val) ELSE sink[c]

\* The select of the loop has a default case: it never waits for channel c.
OfferReady_NoDefault(c) == Len(sink[c]) < SinkCap

OfferReady(c) == TRUE

\* One turn of the loop, for sink c; after the last one the handler returns.
HandleNodeValueUpdated_Offer(c) ==
    /\ hpc = "notify"
    /\ c \in htodo
    /\ OfferReady(c)
    /\ sink' = [sink EXCEPT ![c] = Offer(c, hval)]
    /\ htodo' = htodo \ {c}
    /\ IF htodo = {c}
       THEN /\ hpc' = "returned"
            /\ mu' = "free"
            /\ hval' = NoValue
            /\ hwatch' = Stale
            /\ hret' = Nil
       ELSE UNCHANGED <<hpc, mu, hval, hwatch, hret>>
    /\ UNCHANGED <<dirVars, writeVars, hslot, herr, hload, bootVars, handles,
                   active, called>>

\* The application takes a value out of sink c.
SinkRecv(c) ==
    /\ sink[c] # <<>>
    /\ sink' = [sink EXCEPT ![c] = Tail(@)]
    /\ UNCHANGED <<mu, dirVars, writeVars, handlerVars, bootVars, handles, active,
                   called>>

\* ------------------------------------------------------------------ inputs

\* The one value each entry of a response carries, under its node's id.
PValue(id) == Value(id, 38, "p")
QValue(id) == Value(id, 38, "q")

RECURSIVE SeqsUpTo(_, _)
\* The sequences over S of length at most n.
SeqsUpTo(S, n) ==
    IF n = 0 THEN {<<>>}
    ELSE LET shorter == SeqsUpTo(S, n - 1)
         IN  shorter \cup {Append(q, x) : q \in {r \in shorter : Len(r) = n - 1}, x \in S}

\* Bootstrap payloads of the directory specification: failed and unnamed
\* entries, repeated names and repeated ids, refusals and malformed text.
BootEntries ==
    {Entry(id, name, failed, {PValue(id)}) :
        id \in NodeIDs, name \in {"", "a"}, failed \in BOOLEAN}
BootResponses ==
    {Response(success, result) :
        success \in BOOLEAN, result \in SeqsUpTo(BootEntries, MaxEntries)}
        \cup {BadResponse}

\* Bootstrap payloads of the write specification: one device "a" with one
\* property.
WriteResponses == {Response(TRUE, <<Entry(1, "a", FALSE, {PValue(1)})>>)}
WriteNames == {"a", "b"}
WriteProps == {"p", "q"}
AckKeys == {ValueIDOf(PValue(1)), ValueIDOf(QValue(1))}
Acks ==
    {Ack(k, TRUE, "") : k \in AckKeys}
        \cup {Ack(k, FALSE, m) : k \in AckKeys, m \in Messages}
        \cup {BadAck}

\* Bootstrap payloads and notifications of the watch specification: device
\* "a" with two properties, and an unnamed device.
WatchResponses ==
    {Response(TRUE, <<Entry(1, "a", FALSE, {PValue(1), QValue(1)}),
                      Entry(2, "", FALSE, {PValue(2)})>>)}
WatchNames == {"a", "b"}
WatchProps == {"p", "q", "r"}
Updates ==
    {Update(id, 38, property, "number", Raw("int", 3, FALSE, "")) :
        id \in NodeIDs, property \in {"p", "q"}}
        \cup {Update(1, 38, "p", "number", Raw("string", 0, FALSE, "x")),
              Update(1, 38, "p", "number[]", Raw("array", 0, FALSE, "")),
              BadUpdate}

\* Bootstrap payloads and notifications of the routing specification: device
\* "a" has two values whose property is "p", in command classes 37 and 38,
\* and device "b" has one.
RouteResponses ==
    {Response(TRUE, <<Entry(1, "a", FALSE, {Value(1, 38, "p"), Value(1, 37, "p")}),
                      Entry(2, "b", FALSE, {PValue(2)})>>)}
RouteNames == {"a", "b"}
RouteProps == {"p"}
RouteUpdates ==
    {Update(id, cc, "p", "number", Raw("int", 3, FALSE, "")) :
        id \in NodeIDs, cc \in {37, 38}}

\* ------------------------------------------------------------------ specifications

\* The inbound goroutine on getNodes payloads from R.
BootstrapStep(R) ==
    \/ \E resp \in R : \E ch \in LoadChoices(resp.Result) : \E answers \in BOOLEAN :
          HandleGetNodesResp(resp, ch, answers)
    \/ Dispatch_Return

GetNodesStep ==
    \/ \E ctx \in GetNodesContexts : \E ok \in BOOLEAN : GetNodes_Publish(ctx, ok)
    \/ GetNodes_Deadline
    \/ GetNodes_Select
    \/ GetNodes_CtxDone
    \/ GetNodes_Return

\* The SetAttr callers, passing values from V.
SetAttrStep(V) ==
    \/ \E c \in Callers : \E n \in WriteNames : \E p \in WriteProps : \E v \in V :
          SetAttr_Register(c, n, p, v)
    \/ \E c \in Callers : \E ok \in BOOLEAN : SetAttr_Publish(c, ok)
    \/ \E c \in Callers : SetAttr_Deadline(c)
    \/ \E c \in Callers : SetAttr_CtxDone(c)
    \/ \E c \in Callers : SetAttr_Recv(c)
    \/ \E c \in Callers : SetAttr_Cleanup(c)
    \/ \E c \in Callers : SetAttr_Return(c)

WriteRespStep ==
    \/ \E ack \in Acks : \E from \in Callers \cup {"other"} :
          HandleWriteValueResp(ack, from)
    \/ HandleWriteValueResp_Send

WatchStep ==
    \/ \E v \in Sinks : \E n \in WatchNames : \E p \in WatchProps : WatchValue(v, n, p)
    \/ \E v \in Sinks : \E h \in handles[v] : \E again \in BOOLEAN : Cancel(v, h, again)
    \/ \E v \in Sinks : SinkRecv(v)

UpdateStep ==
    \/ \E upd \in Updates : HandleNodeValueUpdated(upd)
    \/ \E c \in Sinks : HandleNodeValueUpdated_Offer(c)

\* Bootstrap: GetNodes against the getNodes handler.
BootNext == BootstrapStep(BootResponses) \/ GetNodesStep
BootSpec == Init /\ [][BootNext]_vars
\* The GetNodes goroutine and the dispatch goroutine run when they can.
BootFairSpec ==
    /\ BootSpec
    /\ WF_vars(GetNodes_Select)
    /\ WF_vars(GetNodes_CtxDone)
    /\ WF_vars(Dispatch_Return)

\* Writes: SetAttr callers against the writeValue handler.
WriteNext == BootstrapStep(WriteResponses) \/ SetAttrStep(WriteValues) \/ WriteRespStep
WriteSpec == Init /\ [][WriteNext]_vars

\* Writes of encodable values, with the goroutines running when they can
\* and b.mu handed to every goroutine that waits for it.
WriteFairNext == BootstrapStep(WriteResponses) \/ SetAttrStep({"v"}) \/ WriteRespStep
WriteFairSpec ==
    /\ Init /\ [][WriteFairNext]_vars
    /\ \A c \in Callers :
          /\ WF_vars(\E ok \in BOOLEAN : SetAttr_Publish(c, ok))
          /\ WF_vars(SetAttr_CtxDone(c) \/ SetAttr_Recv(c))
          /\ SF_vars(SetAttr_Cleanup(c))
    /\ WF_vars(HandleWriteValueResp_Send)
    /\ WF_vars(Dispatch_Return)

\* Watches: WatchValue, cancel and the sinks against the notification handler.
WatchNext == BootstrapStep(WatchResponses) \/ WatchStep \/ UpdateStep
WatchSpec == Init /\ [][WatchNext]_vars

\* Routing: watches and notifications over values that share a property
\* string.
RouteNext ==
    \/ BootstrapStep(RouteResponses)
    \/ \E v \in Sinks : \E n \in RouteNames : \E p \in RouteProps : WatchValue(v, n, p)
    \/ \E v \in Sinks : \E h \in handles[v] : \E again \in BOOLEAN : Cancel(v, h, again)
    \/ \E v \in Sinks : SinkRecv(v)
    \/ \E upd \in RouteUpdates : HandleNodeValueUpdated(upd)
    \/ \E c \in Sinks : HandleNodeValueUpdated_Offer(c)
RouteSpec == Init /\ [][RouteNext]_vars

\* Installation: the bootstrap handler followed statement by statement,
\* against the goroutines that read the directory.
InstallResponses ==
    {Response(TRUE, result) :
        result \in SeqsUpTo({Entry(1, "a", FALSE, {PValue(1)}),
                             Entry(2, "b", FALSE, {PValue(2)}),
                             Entry(2, "a", FALSE, {PValue(2)})}, MaxEntries)}
InstallUpdates == {Update(id, 38, "p", "number", Raw("int", 3, FALSE, "")) : id \in NodeIDs}
DirectoryRead ==
    \/ \E v \in Sinks : \E n \in WatchNames : WatchValue(v, n, "p")
    \/ \E n \in WriteNames : SetAttr_Register("A", n, "p", "v")
    \/ \E upd \in InstallUpdates : HandleNodeValueUpdated(upd)
InstallNext ==
    \/ \E resp \in InstallResponses : \E ch \in LoadChoices(resp.Result) :
          HandleGetNodesResp_Lock(resp, ch, FALSE)
    \/ HandleGetNodesResp_Load
    \/ HandleGetNodesResp_Unlock
    \/ Dispatch_Return
    \/ DirectoryRead
    \/ SetAttr_Publish("A", FALSE)
    \/ SetAttr_Cleanup("A")
    \/ SetAttr_Return("A")
    \/ \E c \in Sinks : HandleNodeValueUpdated_Offer(c)
    \/ \E v \in Sinks : SinkRecv(v)
InstallSpec == Init /\ [][InstallNext]_vars

\* Decoding: notifications of every declared type, and of one that is not
\* declared, over raw values of every JSON kind, against one watched value.
DeclaredTypes ==
    {"number", "boolean", "string", "number[]", "boolean[]", "string[]",
     "duration", "color", "any"}
DecodeTypes == DeclaredTypes \cup {"bogus"}
DecodeRaws ==
    {Raw("absent", 0, FALSE, ""), Raw("null", 0, FALSE, ""),
     Raw("int", 0, FALSE, ""), Raw("int", 7, FALSE, ""),
     Raw("bool", 0, TRUE, ""), Raw("bool", 0, FALSE, ""),
     Raw("string", 0, FALSE, "x"),
     Raw("object", 0, FALSE, "seconds"), Raw("object", 0, FALSE, "minutes"),
     Raw("object", 0, FALSE, "hours"),
     Raw("array", 0, FALSE, "")}
DecodeUpdates == {Update(1, 38, "p", t, r) : t \in DecodeTypes, r \in DecodeRaws}
DecodeNext ==
    \/ BootstrapStep(WriteResponses)
    \/ \E v \in Sinks : WatchValue(v, "a", "p")
    \/ \E upd \in DecodeUpdates : HandleNodeValueUpdated(upd)
    \/ \E c \in Sinks : HandleNodeValueUpdated_Offer(c)
    \/ \E v \in Sinks : SinkRecv(v)
DecodeSpec == Init /\ [][DecodeNext]_vars

\* The whole broker.
Next ==
    \/ BootstrapStep(BootResponses \cup WriteResponses \cup WatchResponses)
    \/ GetNodesStep
    \/ SetAttrStep(WriteValues)
    \/ WriteRespStep
    \/ WatchStep
    \/ UpdateStep
Spec == Init /\ [][Next]_vars

\* ------------------------------------------------------------------ the directory, as lookups see it

\* What a lookup by name and a lookup by id return.
ByName == [n \in DOMAIN nodesByName |-> objs[nodesByName[n]]]
ByID == [i \in DOMAIN nodesByID |-> objs[nodesByID[i]]]

\* The entries of a result array that are not marked failed.
Live(result) == {i \in 1..Len(result) : ~result[i].Failed}

\* Two entries that are not failed share a name that is not empty.
HasDuplicateName(result) ==
    \E i, j \in Live(result) :
        i < j /\ result[i].Name # "" /\ result[i].Name = result[j].Name

\* Node n is the device of entry e.
IsDevice(n, e) == n.ID = e.ID /\ n.Name = e.Name /\ n.Values = e.Values

\* The directory holds exactly the entries of result that are not failed.
HoldsExactly(result) ==
    /\ DOMAIN ByID = {result[i].ID : i \in Live(result)}
    /\ DOMAIN ByName = {result[i].Name : i \in Live(result)} \ {""}
    /\ \A i \in Live(result) :
          /\ IsDevice(ByID[result[i].ID], result[i])
          /\ result[i].Name # "" => IsDevice(ByName[result[i].Name], result[i])

\* ------------------------------------------------------------------ claims

\* C1: a bootstrap response with two non-failed entries sharing a non-empty
\* name, handled after a successful bootstrap installed a directory, returns
\* a Duplicate error and leaves the lookups by name and by id as they were.
C1_DuplicateKeepsDirectory ==
    [][\A resp \in BootResponses : \A ch \in LoadChoices(resp.Result) :
         \A answers \in BOOLEAN :
           (/\ installed
            /\ resp.Parse /\ resp.Success /\ HasDuplicateName(resp.Result)
            /\ HandleGetNodesResp(resp, ch, answers))
           => /\ hret'.kind = "Duplicate"
              /\ ByName' = ByName
              /\ ByID' = ByID]_vars

\* C2: after a bootstrap response is handled with success, the directory
\* holds exactly its non-failed entries, each one reachable by its id and,
\* when it has a name, by its name, and nothing else.
C2_DirectoryIsResponse ==
    [][\A resp \in BootResponses : \A ch \in LoadChoices(resp.Result) :
         \A answers \in BOOLEAN :
           (/\ HandleGetNodesResp(resp, ch, answers)
            /\ hret' = Nil)
           => HoldsExactly(resp.Result)']_vars

\* C3: SetAttr with a device name the directory lacks, or a property the
\* device lacks, returns NotFound without going on to Publish, and leaves the
\* pending-write table and its channels as they were.
C3_NotFoundPublishesNothing ==
    [][\A c \in Callers : \A n \in WriteNames : \A p \in WriteProps :
         \A v \in WriteValues :
           (/\ SetAttr_Register(c, n, p, v)
            /\ \/ n \notin DOMAIN nodesByName
               \/ p \notin DOMAIN ByName[n].valuesByProperty)
           => /\ ret'[c].kind = "NotFound"
              /\ pc'[c] = "done"
              /\ setAttr' = setAttr
              /\ wait' = wait
              /\ sent' = sent]_vars

\* C3's case: a call came back NotFound while another call's slot is pending.
C3_Witness ==
    \E c \in Callers :
        /\ pc[c] = "done"
        /\ ret[c] = Err("NotFound", "q")
        /\ setAttr # EmptyMap

\* C4: a call is blocked in its select, its deadline has not fired, and a
\* write acknowledgement carrying the call's key is handled.
AckMeets(c, ack, from) ==
    /\ pc[c] = "wait"
    /\ wait[c] = <<>>
    /\ ~ctxDone[c]
    /\ ack.Parse
    /\ ack.ValueID = key[c]
    /\ HandleWriteValueResp(ack, from)

\* The acknowledgement unblocks call c: its channel now holds nil for a
\* success, and the Remote Failure with the payload's message otherwise.
Unblocks(c, ack) ==
    wait'[c] = <<IF ack.Success THEN Nil ELSE Err("RemoteFailure", ack.Message)>>

\* C4 as stated: every such acknowledgement unblocks the call with its result.
C4_AckUnblocksCall ==
    [][\A c \in Callers : \A ack \in Acks : \A from \in Callers \cup {"other"} :
         AckMeets(c, ack, from) => Unblocks(c, ack)]_vars

\* slot: the channel of call c is the entry of b.setAttr under the call's key.
Registered(c) == key[c] \in DOMAIN setAttr /\ setAttr[key[c]] = c

\* C4 amended: the acknowledgement unblocks the call whose channel is the one
\* registered under the key, and the call returns what it takes from it.
C4_AckUnblocksRegisteredCall ==
    [][/\ \A c \in Callers : \A ack \in Acks : \A from \in Callers \cup {"other"} :
            (Registered(c) /\ AckMeets(c, ack, from)) => Unblocks(c, ack)
       /\ \A c \in Callers :
            SetAttr_Recv(c) => ret'[c] = Head(wait[c])
       /\ \A c \in Callers :
            (pc[c] = "cleanup" /\ pc'[c] = "done") => ret'[c] = ret[c]]_vars

\* C4's case: a call returned the Remote Failure carrying "X".
C4_Witness ==
    \E c \in Callers : pc[c] = "done" /\ ret[c] = Err("RemoteFailure", "X")

\* C5: the acknowledgement that answers one call's write request is not
\* delivered to the channel of another call.
C5_AckReachesItsCall ==
    [][\A ack \in Acks : \A from \in Callers :
         (HandleWriteValueResp(ack, from) /\ ack.ValueID \in DOMAIN setAttr)
         => AckSlot(ack) = from]_vars

\* C6: the deferred function of SetAttr removes the entry under the call's
\* key when it is the call's own channel, and leaves the table alone when a
\* later call has replaced it.
C6_CleanupRemovesOwnSlot ==
    [][\A c \in Callers :
         SetAttr_Cleanup(c)
         => IF Registered(c)
            THEN setAttr' = MapDelete(setAttr, key[c])
            ELSE setAttr' = setAttr]_vars

\* C7: once the deadline of a blocked call has fired the call returns, and a
\* call that has returned has no channel left in the pending-write table.
C7_DeadlineReturnsAndUnregisters ==
    /\ \A c \in Callers : [](pc[c] = "wait" /\ ctxDone[c] => <>(pc[c] = "done"))
    /\ [](\A c \in Callers :
             pc[c] \in {"done", "idle"} => \A k \in DOMAIN setAttr : setAttr[k] # c)

\* C8: a GetNodes call whose context has no deadline returns the outcome of
\* the response to its request, once that response has been handled after
\* the request was published.
C8_GetNodesReturnsItsResponse ==
    [](ganswered /\ gctx = "background" /\ gpc \in {"published", "recv"}
          => <>(gpc = "done" /\ gret = gout))

\* C9: the notification handler offers a value only to a sink that holds a
\* registration for the notification's key made by WatchValue and not
\* cancelled since: after cancel has completed, nothing handled later
\* reaches the sink through that registration.
C9_NoDeliveryAfterCancel ==
    [][\A c \in Sinks : HandleNodeValueUpdated_Offer(c) => hwatch \in active[c]]_vars

\* C9's case: a notification is being dispatched for a key that a sink
\* registered and then cancelled, and another sink still watches.
C9_Witness ==
    \E c \in Sinks :
        /\ hpc = "notify"
        /\ hwatch \in handles[c]
        /\ hwatch \notin active[c]
        /\ htodo # {}

\* C10: a turn of the dispatch loop queues the value in a sink with room and
\* leaves a full sink as it is, touches no other sink, and returns after the
\* last sink; and the loop can always take its next turn, whatever the sinks
\* hold.
C10_DispatchNeverWaits ==
    /\ [][\A c \in Sinks :
            HandleNodeValueUpdated_Offer(c)
            => /\ sink'[c] = IF Len(sink[c]) >= SinkCap THEN sink[c]
                                                       ELSE Append(sink[c], hval)
               /\ \A d \in Sinks \ {c} : sink'[d] = sink[d]
               /\ htodo = {c} => hpc' = "returned" /\ mu' = "free"]_vars
    /\ [](hpc = "notify" =>
             /\ htodo # {}
             /\ \A c \in htodo : ENABLED HandleNodeValueUpdated_Offer(c))

\* C10's case: the loop has queued the value in one sink and has a full
\* sink still to visit.
C10_Witness ==
    \E c, d \in Sinks :
        /\ hpc = "notify"
        /\ c \in htodo
        /\ Len(sink[c]) = SinkCap
        /\ d \notin htodo
        /\ hwatch \in active[d]
        /\ sink[d] # <<>>
        /\ sink[d][Len(sink[d])] = hval

\* C11: calling a cancel closure that already ran removes no registration:
\* the watcher sets stay as they are, whether the directory was replaced in
\* between or the sink was registered again after the first call.
C11_SecondCancelChangesNothing ==
    [][\A v \in Sinks : \A h \in handles[v] :
         Cancel(v, h, TRUE) => valueWatchers' = valueWatchers /\ active' = active]_vars

\* C12: handling a write acknowledgement whose key has no entry in the
\* pending-write table returns nil to the dispatch layer, sends on no
\* channel, and leaves the table, the directory, the watcher sets and the
\* lock as they were.
C12_UnmatchedAckDropped ==
    [][\A ack \in Acks : \A from \in Callers \cup {"other"} :
         (/\ ack.Parse
          /\ ack.ValueID \notin DOMAIN setAttr
          /\ HandleWriteValueResp(ack, from))
         => /\ hret' = Nil
            /\ hpc' = "returned"
            /\ wait' = wait
            /\ setAttr' = setAttr
            /\ dirVars' = dirVars
            /\ mu' = mu]_vars

\* C12's case: a call gave up at its deadline and removed its entry, and the
\* acknowledgement of its request was handled afterwards and came back nil.
C12_Witness ==
    \E c \in Callers :
        /\ pc[c] = "done"
        /\ ret[c].kind = "Timeout"
        /\ sent[c] = NoKey
        /\ setAttr = EmptyMap
        /\ \A d \in Callers : wait[d] = <<>>
        /\ hpc = "returned"
        /\ hret = Nil

\* The routing key of a notification, and the routing key of a registration:
\* the value WatchValue found under the property in the device it looked up.
UpdateKey(upd) ==
    [NodeID |-> upd.NodeID, CommandClass |-> upd.CommandClass,
     Endpoint |-> upd.Endpoint, Property |-> upd.Property]
RegistrationKey(h) == ValueIDOf(objs[h.obj].valuesByProperty[h.prop])

\* C13: the sinks the notification handler sets out to offer a value to are
\* registered under the notification's routing key (device id, command
\* class, endpoint, property), and the loop offers to no other sink.
C13_DeliveredUnderOwnKey ==
    [][/\ \A upd \in RouteUpdates :
            (HandleNodeValueUpdated(upd) /\ hpc' = "notify")
            => \A c \in htodo' :
                  \E h \in active[c] \ {Stale} : RegistrationKey(h) = UpdateKey(upd)
       /\ \A c \in Sinks : HandleNodeValueUpdated_Offer(c) => c \in htodo]_vars

\* C14: handling a well-formed notification whose device id the directory
\* lacks returns a NotFound error to the dispatch layer, offers to no sink
\* and leaves the directory and the watcher sets as they were.
C14_UnknownDeviceNotFound ==
    [][\A upd \in Updates :
         (/\ upd.Parse
          /\ ValueValue(upd.Type, upd.RawValue).err = Nil
          /\ upd.NodeID \notin DOMAIN nodesByID
          /\ HandleNodeValueUpdated(upd))
         => /\ hret'.kind = "NotFound"
            /\ hpc' = "returned"
            /\ sink' = sink
            /\ dirVars' = dirVars]_vars

\* C15: no lookup of WatchValue, of SetAttr or of the notification handler
\* runs while handleGetNodesResp is between emptying the maps and leaving its
\* loop, and what a response handled with success leaves at its Unlock is the
\* whole new directory.
C15_NoReaderSeesPartialDirectory ==
    [][/\ DirectoryRead => hpc # "load"
       /\ (HandleGetNodesResp_Unlock /\ hret = Nil)
            => /\ nodesByName = Loaded(hload.result, hload.ch).byName
               /\ nodesByID = Loaded(hload.result, hload.ch).byID
               /\ objs = Loaded(hload.result, hload.ch).objs]_vars

\* C15's case: a directory that had a watcher is being replaced, the first
\* entry of the new one is loaded and the second is not, and a SetAttr call
\* is about to look a device up.
C15_Witness ==
    /\ hpc = "load"
    /\ hload.i = 2
    /\ Len(hload.result) = 2
    /\ nodesByID # EmptyMap
    /\ \E s \in Sinks : Stale \in handles[s]
    /\ pc["A"] = "idle"

\* A payload of the shape the declared type calls for.
WellFormed(type, raw) ==
    CASE type = "number" -> raw.k \in {"absent", "int"}
      [] type = "boolean" -> raw.k \in {"absent", "bool"}
      [] type \in {"string", "color"} -> raw.k = "string"
      [] type = "duration" -> raw.k = "object"
      [] type \in {"number[]", "boolean[]", "string[]"} -> raw.k = "array"
      [] OTHER -> TRUE

\* C16: decoding follows the declared type.  Every declared type, the list
\* types included, decodes a well-formed payload without error; an
\* undeclared type, and a string or color whose payload is not a JSON string,
\* give a TypeMismatch error; number and boolean decode an absent payload to
\* 0 and false and a scalar to itself, string and color decode to the
\* string, duration decodes "seconds" to 1s, "minutes" to 60s and any other
\* unit to 0, and any hands the raw bytes on.
C16_DecodesByDeclaredType ==
    [][\A upd \in DecodeUpdates :
         HandleNodeValueUpdated(upd)
         => LET t == upd.Type
                r == upd.RawValue
            IN  /\ (t \in DeclaredTypes /\ WellFormed(t, r)) => hret' = Nil
                /\ t \notin DeclaredTypes => hret'.kind = "TypeMismatch"
                /\ (t \in {"string", "color"} /\ r.k # "string")
                      => hret'.kind = "TypeMismatch"
                /\ (hpc' = "notify" /\ WellFormed(t, r)) =>
                      CASE t = "number" -> hval' = GoInt(r.i)
                        [] t = "boolean" -> hval' = GoBool(r.b)
                        [] t \in {"string", "color"} -> hval' = GoString(r.s)
                        [] t = "duration" ->
                              hval' = GoDuration(IF r.s = "seconds" THEN 1
                                                 ELSE IF r.s = "minutes" THEN 60 ELSE 0)
                        [] t = "any" -> hval' = GoRaw(r)
                        [] OTHER -> TRUE]_vars

\* C17: a SetAttr call that returns, from its lookups, from the encoding of
\* its request or from its deferred function, leaves b.mu unlocked.
C17_ReturnReleasesLock ==
    [][\A c \in Callers :
         (pc[c] \in {"idle", "cleanup"} /\ pc'[c] = "done") => mu' = "free"]_vars

\* C18: handleWriteValueResp is never waiting to send on a full completion
\* channel, with b.mu held, while the call that owns the channel waits for
\* b.mu in its deferred function.
C18_NoLockedSendDeadlock ==
    ~(/\ hpc = "send"
      /\ mu = "handlerW"
      /\ Len(wait[hslot]) = WaitCap
      /\ pc[hslot] = "cleanup")

\* C19: the two maps agree: the Node found under a name is the Node found
\* under that Node's own id.
C19_IndicesAgree ==
    \A n \in DOMAIN nodesByName :
        /\ ByName[n].ID \in DOMAIN nodesByID
        /\ nodesByID[ByName[n].ID] = nodesByName[n]

\* C20: a bootstrap handled with success leaves every watcher set of the
\* new directory empty; a sink enters a watcher set only by a WatchValue
\* call for it; and the notification loop offers only to sinks of the
\* watcher set of the notification's key.  So a sink registered before the
\* bootstrap gets nothing until WatchValue is called for it again.
C20_BootstrapDropsWatchers ==
    [][/\ \A resp \in WatchResponses : \A ch \in LoadChoices(resp.Result) :
            \A answers \in BOOLEAN :
              (HandleGetNodesResp(resp, ch, answers) /\ hret' = Nil)
              => \A o \in DOMAIN valueWatchers' : \A p \in WatchProps :
                    WatchersOf(o, p)' = {}
       /\ \A v \in Sinks :
            (\E o \in DOMAIN valueWatchers' : \E p \in WatchProps :
                /\ v \in WatchersOf(o, p)'
                /\ ~(o \in DOMAIN valueWatchers /\ v \in WatchersOf(o, p)))
            => \E n \in WatchNames : \E p \in WatchProps : WatchValue(v, n, p)
       /\ \A c \in Sinks :
            HandleNodeValueUpdated_Offer(c) => c \in WatchersOf(hwatch.obj, hwatch.prop)]_vars

\* C20's case: a sink registered before the last bootstrap and not since
\* holds nothing, while a notification is being dispatched to another sink.
C20_Witness ==
    \E s \in Sinks :
        /\ handles[s] = {Stale}
        /\ sink[s] = <<>>
        /\ hpc = "notify"
        /\ "a" \in DOMAIN nodesByName
        /\ hwatch = Handle(nodesByName["a"], "p")

====
